---- MODULE Spec2Model ----
(***************************************************************************)
(* Model of mysqld_exporter.go: the value parser (parseStatus), the column *)
(* classifiers and the scrape driver (Exporter.scrape / Exporter.Collect). *)
(*                                                                         *)
(* Strings are sequences of one-character strings, so that lower-casing,   *)
(* regular-expression matching and number parsing are computed on the      *)
(* characters.  A float64 value is the record [m |-> mantissa, s |-> scale]*)
(* standing for m * 10^(-s), kept normalised (no trailing zero digit in    *)
(* the fraction), so that equal numbers are equal records.  Time is the    *)
(* reading time.Since(begun) gives when scrape returns, in whole seconds.   *)
(***************************************************************************)
EXTENDS Integers, Sequences, FiniteSets, TLC

VARIABLES
    pc,               \* position of the single poll in Collect/scrape
    error,            \* e.error            (Gauge last_scrape_error)
    totalScrapes,     \* e.totalScrapes     (Counter scrapes_total)
    duration,         \* e.duration         (Gauge last_scrape_duration_seconds)
    dbOpen,           \* the *sql.DB handle is open
    rowsOpen,         \* result sets opened and not yet closed
    deferred,         \* the deferred calls of scrape, in registration order
    sink,             \* metrics sent on ch by the current poll, in order
    perfTableIOWaits, \* flag collect.perf_schema.tableiowaits
    userStat,         \* flag collect.info_schema.userstats
    polls,            \* history: number of Collect calls made
    queries,          \* history: queries issued by the current poll, in order
    fed,              \* history: what the database answered in the current poll
    failure,          \* history: the failure injected into the current poll
    outcome,          \* history: how the scrape of the current poll ended
    closed,           \* history: deferred calls run by the current poll, in order
    earlier,          \* history: outcomes of the polls before the current one
    raw,              \* parser harness: the input of parseStatus
    parsed,           \* parser harness: the result of parseStatus
    caller,           \* Describe: who called the current poll
    describes,        \* Describe: history, number of Describe calls made
    collects,         \* Describe: history, number of Collect calls of the registry
    dpc,              \* Describe: position of the Describe call in flight
    fwd,              \* Describe: position of the forwarding goroutine
    handed,           \* Describe: number of sends on metricCh completed
    described,        \* Describe: descriptors received from ch, in order
    metricChClosed,   \* Describe: close(metricCh) was executed
    doneChClosed,     \* Describe: close(doneCh) was executed
    cpc,              \* overlapping polls: position of each poll
    chit,             \* overlapping polls: history, the poll hit a failure
    chanded           \* overlapping polls: history, values each poll sent

vars ==
    <<pc, error, totalScrapes, duration, dbOpen, rowsOpen, deferred,
      sink,
      perfTableIOWaits, userStat, polls, queries, fed, failure, outcome,
      closed, earlier, raw, parsed, caller, describes, collects, dpc, fwd, handed,
      described, metricChClosed, doneChClosed, cpc, chit, chanded>>

scrapeVars ==
    <<pc, error, totalScrapes, duration, dbOpen, rowsOpen, deferred,
      sink,
      perfTableIOWaits, userStat, polls, queries, fed, failure, outcome,
      closed, earlier>>

parseVars ==
    <<raw, parsed>>

describeVars ==
    <<caller, describes, collects, dpc, fwd, handed, described, metricChClosed,
      doneChClosed>>

concVars ==
    <<cpc, chit, chanded>>

\* ---- bounds ----
MaxLen ==
    4
MaxPolls ==
    2
MaxElapsed ==
    1
MaxGlobalRows ==
    2
MaxPerfRows ==
    1
MaxUserRows ==
    1
\* the polls that may overlap
MaxPollers ==
    2

\* ---- string literals of the source, as sequences of characters ----
s_Yes ==
    <<"Y", "e", "s">>
s_ON ==
    <<"O", "N">>
s_No ==
    <<"N", "o">>
s_OFF ==
    <<"O", "F", "F">>
s_com ==
    <<"c", "o", "m">>
s_connection_errors ==
    <<"c", "o", "n", "n", "e", "c", "t", "i", "o", "n", "_", "e", "r", "r", "o", "r", "s">>
s_innodb_rows ==
    <<"i", "n", "n", "o", "d", "b", "_", "r", "o", "w", "s">>
s_performance_schema ==
    <<"p", "e", "r", "f", "o", "r", "m", "a", "n", "c", "e", "_", "s", "c", "h", "e", "m", "a">>
s_commands_total ==
    <<"c", "o", "m", "m", "a", "n", "d", "s", "_", "t", "o", "t", "a", "l">>
s_connection_errors_total ==
    <<"c", "o", "n", "n", "e", "c", "t", "i", "o", "n", "_", "e", "r", "r", "o", "r", "s", "_", "t", "o", "t", "a", "l">>
s_innodb_row_ops_total ==
    <<"i", "n", "n", "o", "d", "b", "_", "r", "o", "w", "_", "o", "p", "s", "_", "t", "o", "t", "a", "l">>
s_performance_schema_lost_total ==
    <<"p", "e", "r", "f", "o", "r", "m", "a", "n", "c", "e", "_", "s", "c", "h", "e", "m", "a", "_", "l", "o", "s", "t", "_", "t", "o", "t", "a", "l">>
s_table_io_waits_total ==
    <<"t", "a", "b", "l", "e", "_", "i", "o", "_", "w", "a", "i", "t", "s", "_", "t", "o", "t", "a", "l">>
s_last_scrape_duration_seconds ==
    <<"l", "a", "s", "t", "_", "s", "c", "r", "a", "p", "e", "_", "d", "u", "r", "a", "t", "i", "o", "n", "_", "s", "e", "c", "o", "n", "d", "s">>
s_scrapes_total ==
    <<"s", "c", "r", "a", "p", "e", "s", "_", "t", "o", "t", "a", "l">>
s_last_scrape_error ==
    <<"l", "a", "s", "t", "_", "s", "c", "r", "a", "p", "e", "_", "e", "r", "r", "o", "r">>
s_user_statistics_ ==
    <<"u", "s", "e", "r", "_", "s", "t", "a", "t", "i", "s", "t", "i", "c", "s", "_">>
s_read ==
    <<"r", "e", "a", "d">>
s_write ==
    <<"w", "r", "i", "t", "e">>
s_fetch ==
    <<"f", "e", "t", "c", "h">>
s_insert ==
    <<"i", "n", "s", "e", "r", "t">>
s_update ==
    <<"u", "p", "d", "a", "t", "e">>
s_delete ==
    <<"d", "e", "l", "e", "t", "e">>
s_TOTAL_CONNECTIONS ==
    <<"T", "O", "T", "A", "L", "_", "C", "O", "N", "N", "E", "C", "T", "I", "O", "N", "S">>
s_user_statistics_total_connections ==
    <<"u", "s", "e", "r", "_", "s", "t", "a", "t", "i", "s", "t", "i", "c", "s", "_", "t", "o", "t", "a", "l", "_", "c", "o", "n", "n", "e", "c", "t", "i", "o", "n", "s">>
s_CONCURRENT_CONNECTIONS ==
    <<"C", "O", "N", "C", "U", "R", "R", "E", "N", "T", "_", "C", "O", "N", "N", "E", "C", "T", "I", "O", "N", "S">>
s_user_statistics_concurrent_connections ==
    <<"u", "s", "e", "r", "_", "s", "t", "a", "t", "i", "s", "t", "i", "c", "s", "_", "c", "o", "n", "c", "u", "r", "r", "e", "n", "t", "_", "c", "o", "n", "n", "e", "c", "t", "i", "o", "n", "s">>
s_CONNECTED_TIME ==
    <<"C", "O", "N", "N", "E", "C", "T", "E", "D", "_", "T", "I", "M", "E">>
s_user_statistics_connected_time ==
    <<"u", "s", "e", "r", "_", "s", "t", "a", "t", "i", "s", "t", "i", "c", "s", "_", "c", "o", "n", "n", "e", "c", "t", "e", "d", "_", "t", "i", "m", "e">>
s_BUSY_TIME ==
    <<"B", "U", "S", "Y", "_", "T", "I", "M", "E">>
s_user_statistics_busy_time ==
    <<"u", "s", "e", "r", "_", "s", "t", "a", "t", "i", "s", "t", "i", "c", "s", "_", "b", "u", "s", "y", "_", "t", "i", "m", "e">>
s_CPU_TIME ==
    <<"C", "P", "U", "_", "T", "I", "M", "E">>
s_user_statistics_cpu_time ==
    <<"u", "s", "e", "r", "_", "s", "t", "a", "t", "i", "s", "t", "i", "c", "s", "_", "c", "p", "u", "_", "t", "i", "m", "e">>
s_BYTES_RECEIVED ==
    <<"B", "Y", "T", "E", "S", "_", "R", "E", "C", "E", "I", "V", "E", "D">>
s_user_statistics_bytes_received ==
    <<"u", "s", "e", "r", "_", "s", "t", "a", "t", "i", "s", "t", "i", "c", "s", "_", "b", "y", "t", "e", "s", "_", "r", "e", "c", "e", "i", "v", "e", "d">>
s_BYTES_SENT ==
    <<"B", "Y", "T", "E", "S", "_", "S", "E", "N", "T">>
s_user_statistics_bytes_sent ==
    <<"u", "s", "e", "r", "_", "s", "t", "a", "t", "i", "s", "t", "i", "c", "s", "_", "b", "y", "t", "e", "s", "_", "s", "e", "n", "t">>
s_BINLOG_BYTES_WRITTEN ==
    <<"B", "I", "N", "L", "O", "G", "_", "B", "Y", "T", "E", "S", "_", "W", "R", "I", "T", "T", "E", "N">>
s_user_statistics_binlog_bytes_written ==
    <<"u", "s", "e", "r", "_", "s", "t", "a", "t", "i", "s", "t", "i", "c", "s", "_", "b", "i", "n", "l", "o", "g", "_", "b", "y", "t", "e", "s", "_", "w", "r", "i", "t", "t", "e", "n">>
s_ROWS_FETCHED ==
    <<"R", "O", "W", "S", "_", "F", "E", "T", "C", "H", "E", "D">>
s_user_statistics_rows_fetched ==
    <<"u", "s", "e", "r", "_", "s", "t", "a", "t", "i", "s", "t", "i", "c", "s", "_", "r", "o", "w", "s", "_", "f", "e", "t", "c", "h", "e", "d">>
s_ROWS_UPDATED ==
    <<"R", "O", "W", "S", "_", "U", "P", "D", "A", "T", "E", "D">>
s_user_statistics_rows_updated ==
    <<"u", "s", "e", "r", "_", "s", "t", "a", "t", "i", "s", "t", "i", "c", "s", "_", "r", "o", "w", "s", "_", "u", "p", "d", "a", "t", "e", "d">>
s_TABLE_ROWS_READ ==
    <<"T", "A", "B", "L", "E", "_", "R", "O", "W", "S", "_", "R", "E", "A", "D">>
s_user_statistics_table_rows_read ==
    <<"u", "s", "e", "r", "_", "s", "t", "a", "t", "i", "s", "t", "i", "c", "s", "_", "t", "a", "b", "l", "e", "_", "r", "o", "w", "s", "_", "r", "e", "a", "d">>
s_SELECT_COMMANDS ==
    <<"S", "E", "L", "E", "C", "T", "_", "C", "O", "M", "M", "A", "N", "D", "S">>
s_user_statistics_select_commands ==
    <<"u", "s", "e", "r", "_", "s", "t", "a", "t", "i", "s", "t", "i", "c", "s", "_", "s", "e", "l", "e", "c", "t", "_", "c", "o", "m", "m", "a", "n", "d", "s">>
s_UPDATE_COMMANDS ==
    <<"U", "P", "D", "A", "T", "E", "_", "C", "O", "M", "M", "A", "N", "D", "S">>
s_user_statistics_update_commands ==
    <<"u", "s", "e", "r", "_", "s", "t", "a", "t", "i", "s", "t", "i", "c", "s", "_", "u", "p", "d", "a", "t", "e", "_", "c", "o", "m", "m", "a", "n", "d", "s">>
s_OTHER_COMMANDS ==
    <<"O", "T", "H", "E", "R", "_", "C", "O", "M", "M", "A", "N", "D", "S">>
s_user_statistics_other_commands ==
    <<"u", "s", "e", "r", "_", "s", "t", "a", "t", "i", "s", "t", "i", "c", "s", "_", "o", "t", "h", "e", "r", "_", "c", "o", "m", "m", "a", "n", "d", "s">>
s_COMMIT_TRANSACTIONS ==
    <<"C", "O", "M", "M", "I", "T", "_", "T", "R", "A", "N", "S", "A", "C", "T", "I", "O", "N", "S">>
s_user_statistics_commit_transactions ==
    <<"u", "s", "e", "r", "_", "s", "t", "a", "t", "i", "s", "t", "i", "c", "s", "_", "c", "o", "m", "m", "i", "t", "_", "t", "r", "a", "n", "s", "a", "c", "t", "i", "o", "n", "s">>
s_ROLLBACK_TRANSACTIONS ==
    <<"R", "O", "L", "L", "B", "A", "C", "K", "_", "T", "R", "A", "N", "S", "A", "C", "T", "I", "O", "N", "S">>
s_user_statistics_rollback_transactions ==
    <<"u", "s", "e", "r", "_", "s", "t", "a", "t", "i", "s", "t", "i", "c", "s", "_", "r", "o", "l", "l", "b", "a", "c", "k", "_", "t", "r", "a", "n", "s", "a", "c", "t", "i", "o", "n", "s">>
s_DENIED_CONNECTIONS ==
    <<"D", "E", "N", "I", "E", "D", "_", "C", "O", "N", "N", "E", "C", "T", "I", "O", "N", "S">>
s_user_statistics_denied_connections ==
    <<"u", "s", "e", "r", "_", "s", "t", "a", "t", "i", "s", "t", "i", "c", "s", "_", "d", "e", "n", "i", "e", "d", "_", "c", "o", "n", "n", "e", "c", "t", "i", "o", "n", "s">>
s_LOST_CONNECTIONS ==
    <<"L", "O", "S", "T", "_", "C", "O", "N", "N", "E", "C", "T", "I", "O", "N", "S">>
s_user_statistics_lost_connections ==
    <<"u", "s", "e", "r", "_", "s", "t", "a", "t", "i", "s", "t", "i", "c", "s", "_", "l", "o", "s", "t", "_", "c", "o", "n", "n", "e", "c", "t", "i", "o", "n", "s">>
s_ACCESS_DENIED ==
    <<"A", "C", "C", "E", "S", "S", "_", "D", "E", "N", "I", "E", "D">>
s_user_statistics_access_denied ==
    <<"u", "s", "e", "r", "_", "s", "t", "a", "t", "i", "s", "t", "i", "c", "s", "_", "a", "c", "c", "e", "s", "s", "_", "d", "e", "n", "i", "e", "d">>
s_EMPTY_QUERIES ==
    <<"E", "M", "P", "T", "Y", "_", "Q", "U", "E", "R", "I", "E", "S">>
s_user_statistics_empty_queries ==
    <<"u", "s", "e", "r", "_", "s", "t", "a", "t", "i", "s", "t", "i", "c", "s", "_", "e", "m", "p", "t", "y", "_", "q", "u", "e", "r", "i", "e", "s">>
s_TOTAL_SSL_CONNECTIONS ==
    <<"T", "O", "T", "A", "L", "_", "S", "S", "L", "_", "C", "O", "N", "N", "E", "C", "T", "I", "O", "N", "S">>
s_user_statistics_total_ssl_connections ==
    <<"u", "s", "e", "r", "_", "s", "t", "a", "t", "i", "s", "t", "i", "c", "s", "_", "t", "o", "t", "a", "l", "_", "s", "s", "l", "_", "c", "o", "n", "n", "e", "c", "t", "i", "o", "n", "s">>
informationSchemaUserStatisticsTypes ==
    {
       [column |-> s_TOTAL_CONNECTIONS, vtype |-> "Counter", name |-> s_user_statistics_total_connections],
       [column |-> s_CONCURRENT_CONNECTIONS, vtype |-> "Gauge", name |-> s_user_statistics_concurrent_connections],
       [column |-> s_CONNECTED_TIME, vtype |-> "Counter", name |-> s_user_statistics_connected_time],
       [column |-> s_BUSY_TIME, vtype |-> "Counter", name |-> s_user_statistics_busy_time],
       [column |-> s_CPU_TIME, vtype |-> "Counter", name |-> s_user_statistics_cpu_time],
       [column |-> s_BYTES_RECEIVED, vtype |-> "Counter", name |-> s_user_statistics_bytes_received],
       [column |-> s_BYTES_SENT, vtype |-> "Counter", name |-> s_user_statistics_bytes_sent],
       [column |-> s_BINLOG_BYTES_WRITTEN, vtype |-> "Counter", name |-> s_user_statistics_binlog_bytes_written],
       [column |-> s_ROWS_FETCHED, vtype |-> "Counter", name |-> s_user_statistics_rows_fetched],
       [column |-> s_ROWS_UPDATED, vtype |-> "Counter", name |-> s_user_statistics_rows_updated],
       [column |-> s_TABLE_ROWS_READ, vtype |-> "Counter", name |-> s_user_statistics_table_rows_read],
       [column |-> s_SELECT_COMMANDS, vtype |-> "Counter", name |-> s_user_statistics_select_commands],
       [column |-> s_UPDATE_COMMANDS, vtype |-> "Counter", name |-> s_user_statistics_update_commands],
       [column |-> s_OTHER_COMMANDS, vtype |-> "Counter", name |-> s_user_statistics_other_commands],
       [column |-> s_COMMIT_TRANSACTIONS, vtype |-> "Counter", name |-> s_user_statistics_commit_transactions],
       [column |-> s_ROLLBACK_TRANSACTIONS, vtype |-> "Counter", name |-> s_user_statistics_rollback_transactions],
       [column |-> s_DENIED_CONNECTIONS, vtype |-> "Counter", name |-> s_user_statistics_denied_connections],
       [column |-> s_LOST_CONNECTIONS, vtype |-> "Counter", name |-> s_user_statistics_lost_connections],
       [column |-> s_ACCESS_DENIED, vtype |-> "Counter", name |-> s_user_statistics_access_denied],
       [column |-> s_EMPTY_QUERIES, vtype |-> "Counter", name |-> s_user_statistics_empty_queries],
       [column |-> s_TOTAL_SSL_CONNECTIONS, vtype |-> "Counter", name |-> s_user_statistics_total_ssl_connections]
    }
\* ---- sample data a MySQL server returns, as sequences of characters ----
s_42 ==
    <<"4", "2">>
s_7 ==
    <<"7">>
s_3_14 ==
    <<"3", ".", "1", "4">>
s_garbage ==
    <<"g", "a", "r", "b", "a", "g", "e">>
s_mysql_bin_000123 ==
    <<"m", "y", "s", "q", "l", "-", "b", "i", "n", ".", "0", "0", "0", "1", "2", "3">>
s_com_insert ==
    <<"c", "o", "m", "_", "i", "n", "s", "e", "r", "t">>
s_Com_insert ==
    <<"C", "o", "m", "_", "i", "n", "s", "e", "r", "t">>
s_wait_timeout ==
    <<"w", "a", "i", "t", "_", "t", "i", "m", "e", "o", "u", "t">>
s_Uptime ==
    <<"U", "p", "t", "i", "m", "e">>
s_innodb_rows_deleted ==
    <<"i", "n", "n", "o", "d", "b", "_", "r", "o", "w", "s", "_", "d", "e", "l", "e", "t", "e", "d">>
s_connection_errors_internal ==
    <<"c", "o", "n", "n", "e", "c", "t", "i", "o", "n", "_", "e", "r", "r", "o", "r", "s", "_", "i", "n", "t", "e", "r", "n", "a", "l">>
s_performance_schema_hosts_lost ==
    <<"p", "e", "r", "f", "o", "r", "m", "a", "n", "c", "e", "_", "s", "c", "h", "e", "m", "a", "_", "h", "o", "s", "t", "s", "_", "l", "o", "s", "t">>
s_Slave_IO_Running ==
    <<"S", "l", "a", "v", "e", "_", "I", "O", "_", "R", "u", "n", "n", "i", "n", "g">>
s_Master_Log_File ==
    <<"M", "a", "s", "t", "e", "r", "_", "L", "o", "g", "_", "F", "i", "l", "e">>
s_Seconds_Behind_Master ==
    <<"S", "e", "c", "o", "n", "d", "s", "_", "B", "e", "h", "i", "n", "d", "_", "M", "a", "s", "t", "e", "r">>
s_db ==
    <<"d", "b">>
s_t ==
    <<"t">>
s_alice ==
    <<"a", "l", "i", "c", "e">>
s_bob ==
    <<"b", "o", "b">>
s_USER ==
    <<"U", "S", "E", "R">>
s_UNKNOWN_COL ==
    <<"U", "N", "K", "N", "O", "W", "N", "_", "C", "O", "L">>
s_insert_x ==
    <<"i", "n", "s", "e", "r", "t", "_", "x">>

\* ---- characters ----
UpperChars ==
    <<"A", "B", "C", "D", "E", "F", "G", "H", "I", "J", "K", "L", "M",
      "N", "O", "P", "Q", "R", "S", "T", "U", "V", "W", "X", "Y", "Z">>
LowerChars ==
    <<"a", "b", "c", "d", "e", "f", "g", "h", "i", "j", "k", "l", "m",
      "n", "o", "p", "q", "r", "s", "t", "u", "v", "w", "x", "y", "z">>
DigitChars ==
    <<"0", "1", "2", "3", "4", "5", "6", "7", "8", "9">>

IsDigit(c) ==
    \E i \in 1..10 : DigitChars[i] = c

DigitVal(c) ==
    (CHOOSE i \in 1..10 : DigitChars[i] = c) - 1

\* strings.ToLower on one character (ASCII)
ToLowerChar(c) ==
    IF \E i \in 1..26 : UpperChars[i] = c
    THEN LowerChars[CHOOSE i \in 1..26 : UpperChars[i] = c]
    ELSE c

\* strings.ToLower
ToLower(str) ==
    [i \in 1..Len(str) |-> ToLowerChar(str[i])]

Suffix(str, i) ==
    SubSeq(str, i, Len(str))

HasPrefix(str, p) ==
    Len(str) >= Len(p) /\ SubSeq(str, 1, Len(p)) = p

\* ---- float64 values ----
RECURSIVE Normalize(_, _)
Normalize(m, s) ==
    IF s > 0 /\ m % 10 = 0 THEN Normalize(m \div 10, s - 1)
    ELSE [m |-> m, s |-> s]

\* float64(n) of an integer n
Num(n) ==
    [m |-> n, s |-> 0]

RECURSIVE DecimalValue(_)
DecimalValue(digits) ==
    IF Len(digits) = 0 THEN 0
    ELSE 10 * DecimalValue(SubSeq(digits, 1, Len(digits) - 1))
         + DigitVal(digits[Len(digits)])

\* strconv.ParseFloat(s, 64) on the decimal syntax [+-]digits[.digits]
\* (at least one digit).  The characters of the other forms ParseFloat
\* accepts (exponent, hexadecimal, underscore, inf, nan) occur in no input
\* of this model except inside words that are no number either way.
\* A syntax error returns the value 0 with a non-nil error.
ParseFloat(s) ==
    LET signed == Len(s) > 0 /\ s[1] \in {"+", "-"}
        body   == IF signed THEN Tail(s) ELSE s
        dots   == {i \in 1..Len(body) : body[i] = "."}
        wellFormed ==
            /\ Cardinality(dots) <= 1
            /\ \A i \in 1..Len(body) : IsDigit(body[i]) \/ body[i] = "."
            /\ \E i \in 1..Len(body) : IsDigit(body[i])
        dot    == IF dots = {} THEN Len(body) + 1 ELSE CHOOSE i \in dots : TRUE
        intPart  == SubSeq(body, 1, dot - 1)
        fracPart == SubSeq(body, dot + 1, Len(body))
        mant   == DecimalValue(intPart \o fracPart)
    IN  IF wellFormed
        THEN [value |-> Normalize(IF signed /\ s[1] = "-" THEN 0 - mant ELSE mant,
                                  Len(fracPart)),
              err |-> FALSE]
        ELSE [value |-> Num(0), err |-> TRUE]

\* str matches .+\.(\d+)$ from its first character: "." matches any
\* character but a newline, $ matches at the end of the text only.
LogREMatchesAt(data, i) ==
    \E j \in (i + 1)..(Len(data) - 1) :
        /\ data[j] = "."
        /\ \A k \in i..(j - 1) : data[k] # "\n"
        /\ \A k \in (j + 1)..Len(data) : IsDigit(data[k])

\* logRE.Find(data): the text of the leftmost match (the whole match, not
\* the parenthesised group), or nil.
LogREFind(data) ==
    LET starts == {i \in 1..Len(data) : LogREMatchesAt(data, i)}
    IN  IF starts = {} THEN [found |-> FALSE, text |-> <<>>]
        ELSE [found |-> TRUE,
              text |-> Suffix(data, CHOOSE i \in starts : \A k \in starts : i <= k)]

parseStatus(data) ==
    IF data = s_Yes \/ data = s_ON THEN [value |-> Num(1), ok |-> TRUE]
    ELSE IF data = s_No \/ data = s_OFF THEN [value |-> Num(0), ok |-> TRUE]
    ELSE LET logNum == LogREFind(data)
         IN  IF logNum.found
             THEN LET r == ParseFloat(logNum.text)
                  IN  [value |-> r.value, ok |-> ~r.err]
             ELSE LET r == ParseFloat(data)
                  IN  [value |-> r.value, ok |-> ~r.err]

\* ---- metric name parts ----
namespace ==
    "mysql"
exporter ==
    "exporter"
slaveStatus ==
    "slave_status"
globalStatus ==
    "global_status"
performanceSchema ==
    "perf_schema"
informationSchema ==
    "info_schema"

\* prometheus.NewDesc(prometheus.BuildFQName(namespace, subsystem, name), help, labels, nil)
NewDesc(subsystem, name, labelNames) ==
    [namespace |-> namespace, subsystem |-> subsystem, name |-> name,
     labelNames |-> labelNames]

newDesc(subsystem, name) ==
    NewDesc(subsystem, name, <<>>)

globalCommandsDesc ==
    NewDesc(globalStatus, s_commands_total, <<"command">>)
globalConnectionErrorsDesc ==
    NewDesc(globalStatus, s_connection_errors_total, <<"error">>)
globalInnoDBRowOpsDesc ==
    NewDesc(globalStatus, s_innodb_row_ops_total, <<"operation">>)
globalPerformanceSchemaLostDesc ==
    NewDesc(globalStatus, s_performance_schema_lost_total, <<"instrumentation">>)
performanceSchemaTableWaitsDesc ==
    NewDesc(performanceSchema, s_table_io_waits_total, <<"schema", "name", "operation">>)

\* prometheus.MustNewConstMetric(desc, valueType, value, labelValues...)
MustNewConstMetric(desc, vtype, value, labelValues) ==
    [desc |-> desc, vtype |-> vtype, value |-> value, labelValues |-> labelValues]

\* the alternatives of globalStatusRE, in the order of the pattern
globalStatusFamilies ==
    <<s_com, s_connection_errors, s_innodb_rows, s_performance_schema>>

\* globalStatusRE.FindStringSubmatch(key) for
\* ^(com|connection_errors|innodb_rows|performance_schema)_(.*)$ :
\* family is match[1], rest is match[2]; (.*) matches no newline.
globalStatusREFindStringSubmatch(key) ==
    LET hits == {f \in 1..Len(globalStatusFamilies) :
                    LET p == Append(globalStatusFamilies[f], "_")
                    IN  /\ HasPrefix(key, p)
                        /\ \A k \in (Len(p) + 1)..Len(key) : key[k] # "\n"}
    IN  IF hits = {} THEN [matched |-> FALSE, family |-> <<>>, rest |-> <<>>]
        ELSE LET f == CHOOSE h \in hits : \A g \in hits : h <= g
             IN  [matched |-> TRUE,
                  family |-> globalStatusFamilies[f],
                  rest |-> Suffix(key, Len(globalStatusFamilies[f]) + 2)]

\* variant of EmitGlobalStatusRow that ignores ok and sends the zero of a failed parse
EmitGlobalStatusRow_silentZero(key, val) ==
    LET p == parseStatus(val)
    IN  <<MustNewConstMetric(newDesc(globalStatus, ToLower(key)),
                             "Untyped", p.value, <<>>)>>

\* the body of the SHOW GLOBAL STATUS loop after a successful Scan:
\* the metrics sent on ch for one row (none or one)
EmitGlobalStatusRow(key, val) ==
    LET p == parseStatus(val)
        match == globalStatusREFindStringSubmatch(key)
    IN  IF ~p.ok THEN <<>>
        ELSE IF ~match.matched
        THEN <<MustNewConstMetric(newDesc(globalStatus, ToLower(key)),
                                  "Untyped", p.value, <<>>)>>
        ELSE IF match.family = s_com
        THEN <<MustNewConstMetric(globalCommandsDesc, "Counter", p.value,
                                  <<match.rest>>)>>
        ELSE IF match.family = s_connection_errors
        THEN <<MustNewConstMetric(globalConnectionErrorsDesc, "Counter", p.value,
                                  <<match.rest>>)>>
        ELSE IF match.family = s_innodb_rows
        THEN <<MustNewConstMetric(globalInnoDBRowOpsDesc, "Counter", p.value,
                                  <<match.rest>>)>>
        ELSE IF match.family = s_performance_schema
        THEN <<MustNewConstMetric(globalPerformanceSchemaLostDesc, "Counter", p.value,
                                  <<match.rest>>)>>
        ELSE <<>>

\* variant of GlobalStatusMetrics that sends the rows last first
RECURSIVE GlobalStatusMetrics_reversed(_, _)
GlobalStatusMetrics_reversed(rows, n) ==
    IF n = 0 THEN <<>>
    ELSE EmitGlobalStatusRow(rows[n].key, rows[n].val)
         \o GlobalStatusMetrics_reversed(rows, n - 1)

\* the metrics of the first n rows of SHOW GLOBAL STATUS, in row order
RECURSIVE GlobalStatusMetrics(_, _)
GlobalStatusMetrics(rows, n) ==
    IF n = 0 THEN <<>>
    ELSE GlobalStatusMetrics(rows, n - 1) \o EmitGlobalStatusRow(rows[n].key, rows[n].val)

\* variant of SlaveStatusMetrics that names the metric by the column name as
\* the server spells it
RECURSIVE SlaveStatusMetrics_rawName(_, _, _)
SlaveStatusMetrics_rawName(slaveCols, scanArgs, n) ==
    IF n = 0 THEN <<>>
    ELSE LET p == parseStatus(scanArgs[n])
         IN  SlaveStatusMetrics_rawName(slaveCols, scanArgs, n - 1)
             \o (IF p.ok
                 THEN <<MustNewConstMetric(newDesc(slaveStatus, slaveCols[n]),
                                           "Untyped", p.value, <<>>)>>
                 ELSE <<>>)

\* the range loop over slaveCols: one metric per column whose value parses
RECURSIVE SlaveStatusMetrics(_, _, _)
SlaveStatusMetrics(slaveCols, scanArgs, n) ==
    IF n = 0 THEN <<>>
    ELSE LET p == parseStatus(scanArgs[n])
         IN  SlaveStatusMetrics(slaveCols, scanArgs, n - 1)
             \o (IF p.ok
                 THEN <<MustNewConstMetric(newDesc(slaveStatus, ToLower(slaveCols[n])),
                                           "Untyped", p.value, <<>>)>>
                 ELSE <<>>)

\* variant of EmitPerfSchemaRow that sends countWrite as read and countRead
\* as write
EmitPerfSchemaRow_swapped(objectSchema, objectName, counts) ==
    <<MustNewConstMetric(performanceSchemaTableWaitsDesc, "Counter", Num(counts[2]),
                         <<objectSchema, objectName, s_read>>),
      MustNewConstMetric(performanceSchemaTableWaitsDesc, "Counter", Num(counts[1]),
                         <<objectSchema, objectName, s_write>>),
      MustNewConstMetric(performanceSchemaTableWaitsDesc, "Counter", Num(counts[3]),
                         <<objectSchema, objectName, s_fetch>>),
      MustNewConstMetric(performanceSchemaTableWaitsDesc, "Counter", Num(counts[4]),
                         <<objectSchema, objectName, s_insert>>),
      MustNewConstMetric(performanceSchemaTableWaitsDesc, "Counter", Num(counts[5]),
                         <<objectSchema, objectName, s_update>>),
      MustNewConstMetric(performanceSchemaTableWaitsDesc, "Counter", Num(counts[6]),
                         <<objectSchema, objectName, s_delete>>)>>

\* the six sends of one row of the table-waits query; counts holds
\* countRead, countWrite, countFetch, countInsert, countUpdate, countDelete
EmitPerfSchemaRow(objectSchema, objectName, counts) ==
    <<MustNewConstMetric(performanceSchemaTableWaitsDesc, "Counter", Num(counts[1]),
                         <<objectSchema, objectName, s_read>>),
      MustNewConstMetric(performanceSchemaTableWaitsDesc, "Counter", Num(counts[2]),
                         <<objectSchema, objectName, s_write>>),
      MustNewConstMetric(performanceSchemaTableWaitsDesc, "Counter", Num(counts[3]),
                         <<objectSchema, objectName, s_fetch>>),
      MustNewConstMetric(performanceSchemaTableWaitsDesc, "Counter", Num(counts[4]),
                         <<objectSchema, objectName, s_insert>>),
      MustNewConstMetric(performanceSchemaTableWaitsDesc, "Counter", Num(counts[5]),
                         <<objectSchema, objectName, s_update>>),
      MustNewConstMetric(performanceSchemaTableWaitsDesc, "Counter", Num(counts[6]),
                         <<objectSchema, objectName, s_delete>>)>>

RECURSIVE PerfSchemaMetrics(_, _)
PerfSchemaMetrics(rows, n) ==
    IF n = 0 THEN <<>>
    ELSE PerfSchemaMetrics(rows, n - 1)
         \o EmitPerfSchemaRow(rows[n].schema, rows[n].name, rows[n].counts)

\* userStatData after make([]float64, len(columnNames)); element i of the
\* Go slice is element i + 1 here
NewUserStatData(columnNames) ==
    [i \in 1..Len(columnNames) |-> Num(0)]

\* Scan(userStatScanArgs...): column 0 goes to user, column i >= 1 goes to
\* userStatData[i] (userStatScanArgs[i+1] = &userStatData[i+1], i from 0);
\* row.data holds the values of the columns after the first
ScanUserStatData(userStatData, row) ==
    [i \in 1..Len(userStatData) |->
        IF i = 1 THEN userStatData[1] ELSE row.data[i - 1]]

\* variant of EmitUserStatRow that sends nothing for a column missing from
\* informationSchemaUserStatisticsTypes
RECURSIVE EmitUserStatRow_dropsUnknown(_, _, _, _)
EmitUserStatRow_dropsUnknown(columnNames, userStatData, user, n) ==
    IF n = 0 THEN <<>>
    ELSE LET idx == n - 1
             columnName == columnNames[idx + 2]
             value == userStatData[idx + 1]
             known == {t \in informationSchemaUserStatisticsTypes :
                          t.column = columnName}
         IN  EmitUserStatRow_dropsUnknown(columnNames, userStatData, user, n - 1)
             \o (IF known # {}
                 THEN LET metricType == CHOOSE t \in known : TRUE
                      IN  <<MustNewConstMetric(
                               NewDesc(informationSchema, metricType.name, <<"user">>),
                               metricType.vtype, value, <<user>>)>>
                 ELSE <<>>)

\* the range loop over columnNames[1:]: idx counts from 0, columnName is
\* columnNames[idx+1] and the value sent is userStatData[idx]
RECURSIVE EmitUserStatRow(_, _, _, _)
EmitUserStatRow(columnNames, userStatData, user, n) ==
    IF n = 0 THEN <<>>
    ELSE LET idx == n - 1
             columnName == columnNames[idx + 2]
             value == userStatData[idx + 1]
             known == {t \in informationSchemaUserStatisticsTypes :
                          t.column = columnName}
         IN  EmitUserStatRow(columnNames, userStatData, user, n - 1)
             \o (IF known # {}
                 THEN LET metricType == CHOOSE t \in known : TRUE
                      IN  <<MustNewConstMetric(
                               NewDesc(informationSchema, metricType.name, <<"user">>),
                               metricType.vtype, value, <<user>>)>>
                 ELSE <<MustNewConstMetric(
                           NewDesc(informationSchema,
                                   s_user_statistics_ \o ToLower(columnName),
                                   <<"user">>),
                           "Untyped", value, <<user>>)>>)

\* the rows loop of the user-statistics query over the first n rows
RECURSIVE UserStatMetrics(_, _, _, _)
UserStatMetrics(columnNames, userStatData, rows, n) ==
    IF n = 0 THEN <<>>
    ELSE LET before == UserStatMetrics(columnNames, userStatData, rows, n - 1)
             data == ScanUserStatData(userStatData, rows[n])
         IN  before \o EmitUserStatRow(columnNames, data, rows[n].user,
                                       Len(columnNames) - 1)

\* ---- what the database may answer ----
\* the runs of at most maxRows consecutive rows of a table
Runs(table, maxRows) ==
    {<<>>} \cup {SubSeq(table, p[1], p[2]) :
                    p \in {q \in (1..Len(table)) \X (1..Len(table)) :
                              q[1] <= q[2] /\ q[2] - q[1] < maxRows}}

\* the answers to a query whose rows are scanned in a loop: db.Query fails;
\* or rows are the rows scanned successfully, in order (a run of rows of the
\* server's table), and scanErr tells that the Scan of the row after them
\* fails
RowResults(table, maxRows) ==
    {[queryErr |-> TRUE, rows |-> <<>>, scanErr |-> FALSE]}
    \cup {[queryErr |-> FALSE, rows |-> p[1], scanErr |-> p[2]] :
             p \in {q \in Runs(table, maxRows) \X BOOLEAN :
                       q[2] => Len(q[1]) < maxRows}}

\* the status variables of the server, in the order it reports them
GlobalStatusRowSamples ==
    <<[key |-> s_Com_insert, val |-> s_42],
      [key |-> s_com_insert, val |-> s_42],
      [key |-> s_connection_errors_internal, val |-> s_ON],
      [key |-> s_wait_timeout, val |-> s_garbage],
      [key |-> s_Uptime, val |-> s_3_14],
      [key |-> s_innodb_rows_deleted, val |-> s_7],
      [key |-> s_performance_schema_hosts_lost, val |-> s_OFF]>>

GlobalStatusResults ==
    RowResults(GlobalStatusRowSamples, MaxGlobalRows)

\* one row of SHOW SLAVE STATUS: column names and cells (a NULL cell is empty)
SlaveStatusRowSamples ==
    {[cols |-> <<s_Slave_IO_Running, s_Master_Log_File, s_Seconds_Behind_Master>>,
      vals |-> <<s_Yes, s_mysql_bin_000123, s_42>>],
     [cols |-> <<s_Slave_IO_Running, s_Seconds_Behind_Master>>,
      vals |-> <<s_No, <<>> >>]}

NoSlaveRow ==
    [queryErr |-> FALSE, hasRow |-> FALSE, columnsErr |-> FALSE, scanErr |-> FALSE,
     cols |-> <<>>, vals |-> <<>>]

\* db.Query fails; no row; a row whose Columns() fails; a row whose Scan
\* fails; a row that is scanned
SlaveStatusResults ==
    {[NoSlaveRow EXCEPT !.queryErr = TRUE],
     NoSlaveRow,
     [NoSlaveRow EXCEPT !.hasRow = TRUE, !.columnsErr = TRUE]}
    \cup {[NoSlaveRow EXCEPT !.hasRow = TRUE, !.scanErr = TRUE, !.cols = r.cols] :
             r \in SlaveStatusRowSamples}
    \cup {[NoSlaveRow EXCEPT !.hasRow = TRUE, !.cols = r.cols, !.vals = r.vals] :
             r \in SlaveStatusRowSamples}

\* the rows of the table-waits summary, in the order the server reports them
PerfSchemaRowSamples ==
    <<[schema |-> s_db, name |-> s_t, counts |-> <<1, 2, 3, 4, 5, 6>>],
      [schema |-> s_db, name |-> s_alice, counts |-> <<0, 0, 0, 0, 0, 7>>]>>

PerfSchemaResults ==
    RowResults(PerfSchemaRowSamples, MaxPerfRows)

\* the column lists of information_schema.USER_STATISTICS a server may have
UserStatColumnSamples ==
    {<<s_USER, s_TOTAL_CONNECTIONS, s_UNKNOWN_COL>>,
     <<s_USER, s_CONCURRENT_CONNECTIONS>>}

\* rows of a result with n columns: the user name and the values of the
\* n - 1 columns after it
UserStatRowSamples(n) ==
    <<[user |-> s_alice, data |-> [i \in 1..(n - 1) |-> Num(4 * i + 1)]],
      [user |-> s_bob, data |-> [i \in 1..(n - 1) |-> Num(i + 1)]]>>

NoUserStats ==
    [queryErr |-> FALSE, columnsErr |-> FALSE, cols |-> <<>>, rows |-> <<>>,
     scanErr |-> FALSE]

UserStatResults ==
    {[NoUserStats EXCEPT !.queryErr = TRUE],
     [NoUserStats EXCEPT !.columnsErr = TRUE]}
    \cup UNION {{[NoUserStats EXCEPT !.cols = c, !.rows = r.rows, !.scanErr = r.scanErr] :
                    r \in {x \in RowResults(UserStatRowSamples(Len(c)), MaxUserRows) :
                              ~x.queryErr}} :
                c \in UserStatColumnSamples}

NotFed ==
    [globalStatus |-> [queryErr |-> FALSE, rows |-> <<>>, scanErr |-> FALSE],
     slaveStatus |-> NoSlaveRow,
     perfSchema |-> [queryErr |-> FALSE, rows |-> <<>>, scanErr |-> FALSE],
     userStats |-> NoUserStats]

NoFailure ==
    [kind |-> "none", state |-> "none"]

Failure(kind) ==
    [kind |-> kind, state |-> pc]

NotParsed ==
    [done |-> FALSE, value |-> Num(0), ok |-> FALSE]

\* the goroutines that may call Collect at the same time
Pollers ==
    1..MaxPollers

\* no Describe call was made
NoDescribe ==
    /\ caller = "none"
    /\ describes = 0
    /\ collects = 0
    /\ dpc = "none"
    /\ fwd = "none"
    /\ handed = 0
    /\ described = <<>>
    /\ metricChClosed = FALSE
    /\ doneChClosed = FALSE

\* no overlapping poll was made
NoPollers ==
    /\ cpc = [p \in Pollers |-> "Idle"]
    /\ chit = [p \in Pollers |-> FALSE]
    /\ chanded = [p \in Pollers |-> <<>>]

\* ---- the poll ----
Init ==
    /\ pc = "Idle"
    /\ error = 0
    /\ totalScrapes = 0
    /\ duration = 0
    /\ dbOpen = FALSE
    /\ rowsOpen = {}
    /\ deferred = <<>>
    /\ sink = <<>>
    /\ perfTableIOWaits \in BOOLEAN
    /\ userStat \in BOOLEAN
    /\ polls = 0
    /\ queries = <<>>
    /\ fed = NotFed
    /\ failure = NoFailure
    /\ outcome = "none"
    /\ closed = <<>>
    /\ earlier = <<>>
    /\ raw = <<>>
    /\ parsed = NotParsed
    /\ NoDescribe
    /\ NoPollers

\* the state whose code follows the code of state st
NextState(st) ==
    CASE st = "Connecting" -> "QueryingGlobalStatus"
      [] st = "QueryingGlobalStatus" -> "QueryingSlaveStatus"
      [] st = "QueryingSlaveStatus" -> "QueryingPerfSchema"
      [] st = "QueryingPerfSchema" -> "QueryingUserStats"
      [] OTHER -> "Returning"

\* variant of Fail whose return statement is missing: scrape goes on
Fail_noReturn(kind) ==
    /\ error' = 1
    /\ pc' = NextState(pc)
    /\ outcome' = IF NextState(pc) = "Returning" THEN "Failed" ELSE outcome
    /\ failure' = Failure(kind)

\* an early return of scrape after a failure: e.error.Set(1), return
Fail(kind) ==
    /\ error' = 1
    /\ pc' = "Returning"
    /\ outcome' = "Failed"
    /\ failure' = Failure(kind)

\* variant of ScrapeEntry without e.totalScrapes.Inc()
ScrapeEntry_noInc ==
    /\ error' = 0
    /\ totalScrapes' = totalScrapes

\* variant of ScrapeEntry without e.error.Set(0)
ScrapeEntry_noReset ==
    /\ error' = error
    /\ totalScrapes' = totalScrapes + 1

\* e.error.Set(0); e.totalScrapes.Inc()
ScrapeEntry ==
    /\ error' = 0
    /\ totalScrapes' = totalScrapes + 1

\* scrape is entered: the deferred closure is registered with
\* begun = time.Now(); the history of the poll before is put away
EnterScrape ==
    /\ pc' = "Connecting"
    /\ deferred' = <<"duration.Set">>
    /\ polls' = polls + 1
    /\ sink' = <<>>
    /\ queries' = <<>>
    /\ fed' = NotFed
    /\ failure' = NoFailure
    /\ outcome' = "none"
    /\ closed' = <<>>
    /\ earlier' = IF polls > 0 THEN Append(earlier, outcome) ELSE earlier
    /\ UNCHANGED <<duration, dbOpen, rowsOpen, perfTableIOWaits, userStat>>

\* the registry calls Collect, which calls scrape
StartPoll ==
    /\ pc = "Idle"
    /\ polls < MaxPolls
    /\ EnterScrape
    /\ ScrapeEntry
    /\ UNCHANGED <<parseVars, describeVars, concVars>>

\* variant of Open without defer db.Close()
Open_noDeferClose ==
    /\ pc = "Connecting"
    /\ \E err \in BOOLEAN :
        IF err
        THEN /\ Fail("open")
             /\ UNCHANGED <<dbOpen, deferred>>
        ELSE /\ dbOpen' = TRUE
             /\ deferred' = deferred
             /\ pc' = "QueryingGlobalStatus"
             /\ UNCHANGED <<error, outcome, failure>>
    /\ UNCHANGED <<totalScrapes, duration, rowsOpen, sink,
                   perfTableIOWaits, userStat, polls, queries, fed, closed, earlier>>
    /\ UNCHANGED <<parseVars, describeVars, concVars>>

\* sql.Open("mysql", e.dsn); on success defer db.Close()
Open ==
    /\ pc = "Connecting"
    /\ \E err \in BOOLEAN :
        IF err
        THEN /\ Fail("open")
             /\ UNCHANGED <<dbOpen, deferred>>
        ELSE /\ dbOpen' = TRUE
             /\ deferred' = Append(deferred, "db.Close")
             /\ pc' = "QueryingGlobalStatus"
             /\ UNCHANGED <<error, outcome, failure>>
    /\ UNCHANGED <<totalScrapes, duration, rowsOpen, sink,
                   perfTableIOWaits, userStat, polls, queries, fed, closed, earlier>>
    /\ UNCHANGED <<parseVars, describeVars, concVars>>

\* db.Query("SHOW GLOBAL STATUS") and the loop over its rows
QueryGlobalStatus ==
    /\ pc = "QueryingGlobalStatus"
    /\ \E res \in GlobalStatusResults :
        /\ queries' = Append(queries, "SHOW GLOBAL STATUS")
        /\ fed' = [fed EXCEPT !.globalStatus = res]
        /\ IF res.queryErr
           THEN /\ Fail("query")
                /\ UNCHANGED <<rowsOpen, deferred, sink>>
           ELSE /\ rowsOpen' = rowsOpen \cup {"globalStatusRows"}
                /\ deferred' = Append(deferred, "globalStatusRows.Close")
                /\ sink' = sink \o GlobalStatusMetrics(res.rows, Len(res.rows))
                /\ IF res.scanErr
                   THEN Fail("scan")
                   ELSE /\ pc' = "QueryingSlaveStatus"
                        /\ UNCHANGED <<error, outcome, failure>>
    /\ UNCHANGED <<totalScrapes, duration, dbOpen,
                   perfTableIOWaits, userStat, polls, closed, earlier>>
    /\ UNCHANGED <<parseVars, describeVars, concVars>>

\* db.Query("SHOW SLAVE STATUS") and the single row it may return
QuerySlaveStatus ==
    /\ pc = "QueryingSlaveStatus"
    /\ \E res \in SlaveStatusResults :
        /\ queries' = Append(queries, "SHOW SLAVE STATUS")
        /\ fed' = [fed EXCEPT !.slaveStatus = res]
        /\ IF res.queryErr
           THEN /\ Fail("query")
                /\ UNCHANGED <<rowsOpen, deferred, sink>>
           ELSE /\ rowsOpen' = rowsOpen \cup {"slaveStatusRows"}
                /\ deferred' = Append(deferred, "slaveStatusRows.Close")
                /\ IF res.hasRow /\ res.columnsErr
                   THEN /\ Fail("columns")
                        /\ UNCHANGED sink
                   ELSE IF res.hasRow /\ res.scanErr
                   THEN /\ Fail("scan")
                        /\ UNCHANGED sink
                   ELSE /\ sink' = IF res.hasRow
                                   THEN sink \o SlaveStatusMetrics(res.cols, res.vals,
                                                                   Len(res.cols))
                                   ELSE sink
                        /\ pc' = "QueryingPerfSchema"
                        /\ UNCHANGED <<error, outcome, failure>>
    /\ UNCHANGED <<totalScrapes, duration, dbOpen,
                   perfTableIOWaits, userStat, polls, closed, earlier>>
    /\ UNCHANGED <<parseVars, describeVars, concVars>>

\* variant of QueryPerfSchema that runs the query whatever *perfTableIOWaits is
QueryPerfSchema_ignoresToggle ==
    /\ pc = "QueryingPerfSchema"
    /\ \E res \in PerfSchemaResults :
        /\ queries' = Append(queries, "SELECT table_io_waits_summary_by_table")
        /\ fed' = [fed EXCEPT !.perfSchema = res]
        /\ IF res.queryErr
           THEN /\ Fail("query")
                /\ UNCHANGED <<rowsOpen, deferred, sink>>
           ELSE /\ rowsOpen' = rowsOpen \cup {"perfSchemaTableWaitsRows"}
                /\ deferred' = Append(deferred, "perfSchemaTableWaitsRows.Close")
                /\ sink' = sink \o PerfSchemaMetrics(res.rows, Len(res.rows))
                /\ IF res.scanErr
                   THEN /\ pc' = "Returning"
                        /\ outcome' = "Failed"
                        /\ failure' = Failure("scan")
                        /\ UNCHANGED error
                   ELSE /\ pc' = "QueryingUserStats"
                        /\ UNCHANGED <<error, outcome, failure>>
    /\ UNCHANGED <<totalScrapes, duration, dbOpen,
                   perfTableIOWaits, userStat, polls, closed, earlier>>
    /\ UNCHANGED <<parseVars, describeVars, concVars>>

\* if *perfTableIOWaits { db.Query(...table_io_waits_summary_by_table...) and
\* the loop over its rows }; a failing Scan returns without e.error.Set(1)
QueryPerfSchema ==
    /\ pc = "QueryingPerfSchema"
    /\ IF ~perfTableIOWaits
       THEN /\ pc' = "QueryingUserStats"
            /\ UNCHANGED <<error, outcome, failure, rowsOpen, deferred, sink,
                           queries, fed>>
       ELSE \E res \in PerfSchemaResults :
            /\ queries' = Append(queries, "SELECT table_io_waits_summary_by_table")
            /\ fed' = [fed EXCEPT !.perfSchema = res]
            /\ IF res.queryErr
               THEN /\ Fail("query")
                    /\ UNCHANGED <<rowsOpen, deferred, sink>>
               ELSE /\ rowsOpen' = rowsOpen \cup {"perfSchemaTableWaitsRows"}
                    /\ deferred' = Append(deferred, "perfSchemaTableWaitsRows.Close")
                    /\ sink' = sink \o PerfSchemaMetrics(res.rows, Len(res.rows))
                    /\ IF res.scanErr
                       THEN /\ pc' = "Returning"
                            /\ outcome' = "Failed"
                            /\ failure' = Failure("scan")
                            /\ UNCHANGED error
                       ELSE /\ pc' = "QueryingUserStats"
                            /\ UNCHANGED <<error, outcome, failure>>
    /\ UNCHANGED <<totalScrapes, duration, dbOpen,
                   perfTableIOWaits, userStat, polls, closed, earlier>>
    /\ UNCHANGED <<parseVars, describeVars, concVars>>

\* if *userStat { db.Query("SELECT * FROM information_schema.USER_STATISTICS"),
\* Columns(), and the loop over its rows }; then scrape reaches its end
QueryUserStats ==
    /\ pc = "QueryingUserStats"
    /\ IF ~userStat
       THEN /\ pc' = "Returning"
            /\ outcome' = "Done"
            /\ UNCHANGED <<error, failure, rowsOpen, deferred, sink, queries, fed>>
       ELSE \E res \in UserStatResults :
            /\ queries' = Append(queries, "SELECT USER_STATISTICS")
            /\ fed' = [fed EXCEPT !.userStats = res]
            /\ IF res.queryErr
               THEN /\ Fail("query")
                    /\ UNCHANGED <<rowsOpen, deferred, sink>>
               ELSE /\ rowsOpen' = rowsOpen \cup {"informationSchemaUserStatisticsRows"}
                    /\ deferred' = Append(deferred,
                                          "informationSchemaUserStatisticsRows.Close")
                    /\ IF res.columnsErr
                       THEN /\ Fail("columns")
                            /\ UNCHANGED sink
                       ELSE /\ sink' = sink \o UserStatMetrics(res.cols,
                                                   NewUserStatData(res.cols),
                                                   res.rows, Len(res.rows))
                            /\ IF res.scanErr
                               THEN Fail("scan")
                               ELSE /\ pc' = "Returning"
                                    /\ outcome' = "Done"
                                    /\ UNCHANGED <<error, failure>>
    /\ UNCHANGED <<totalScrapes, duration, dbOpen,
                   perfTableIOWaits, userStat, polls, closed, earlier>>
    /\ UNCHANGED <<parseVars, describeVars, concVars>>

Reverse(q) ==
    [i \in 1..Len(q) |-> q[Len(q) + 1 - i]]

InSeq(x, q) ==
    \E i \in 1..Len(q) : q[i] = x

\* scrape returns: the deferred calls run, last registered first: the
\* Close of every result set, db.Close(), and last
\* e.duration.Set(time.Since(begun).Seconds())
ScrapeReturn ==
    /\ pc = "Returning"
    /\ \E sinceBegun \in 0..MaxElapsed :
        duration' = IF InSeq("duration.Set", deferred) THEN sinceBegun ELSE duration
    /\ rowsOpen' = {r \in rowsOpen : ~InSeq(r \o ".Close", deferred)}
    /\ dbOpen' = (dbOpen /\ ~InSeq("db.Close", deferred))
    /\ closed' = Reverse(deferred)
    /\ deferred' = <<>>
    /\ pc' = "Emitting"
    /\ UNCHANGED <<error, totalScrapes, sink, perfTableIOWaits, userStat,
                   polls, queries, fed, failure, outcome, earlier>>
    /\ UNCHANGED <<parseVars, describeVars, concVars>>

\* variant of SelfMetrics without ch <- e.error
SelfMetrics_noError ==
    <<MustNewConstMetric(newDesc(exporter, s_last_scrape_duration_seconds),
                         "Gauge", Num(duration), <<>>),
      MustNewConstMetric(newDesc(exporter, s_scrapes_total),
                         "Counter", Num(totalScrapes), <<>>)>>

\* the three self-observation metrics Collect sends after scrape returned
SelfMetrics ==
    <<MustNewConstMetric(newDesc(exporter, s_last_scrape_duration_seconds),
                         "Gauge", Num(duration), <<>>),
      MustNewConstMetric(newDesc(exporter, s_scrapes_total),
                         "Counter", Num(totalScrapes), <<>>),
      MustNewConstMetric(newDesc(exporter, s_last_scrape_error),
                         "Gauge", Num(error), <<>>)>>

\* ch <- e.duration; ch <- e.totalScrapes; ch <- e.error; Collect returns
CollectSend ==
    /\ pc = "Emitting"
    /\ sink' = sink \o SelfMetrics
    /\ pc' = "Idle"
    /\ UNCHANGED <<error, totalScrapes, duration, dbOpen, rowsOpen,
                   deferred, perfTableIOWaits, userStat, polls, queries, fed,
                   failure, outcome, closed, earlier>>
    /\ UNCHANGED <<parseVars, describeVars, concVars>>

Next ==
    \/ StartPoll
    \/ Open
    \/ QueryGlobalStatus
    \/ QuerySlaveStatus
    \/ QueryPerfSchema
    \/ QueryUserStats
    \/ ScrapeReturn
    \/ CollectSend

Spec ==
    Init /\ [][Next]_vars

\* ---- the parser on its own ----
ParseChars ==
    {"0", "1", ".", "-", "b", "\n"}

ParseInputs ==
    UNION {[1..n -> ParseChars] : n \in 0..MaxLen}
    \cup {s_Yes, s_ON, s_No, s_OFF, s_mysql_bin_000123, s_3_14, s_garbage, s_42}

InitParse ==
    /\ pc = "Idle"
    /\ error = 0
    /\ totalScrapes = 0
    /\ duration = 0
    /\ dbOpen = FALSE
    /\ rowsOpen = {}
    /\ deferred = <<>>
    /\ sink = <<>>
    /\ perfTableIOWaits = FALSE
    /\ userStat = FALSE
    /\ polls = 0
    /\ queries = <<>>
    /\ fed = NotFed
    /\ failure = NoFailure
    /\ outcome = "none"
    /\ closed = <<>>
    /\ earlier = <<>>
    /\ raw \in ParseInputs
    /\ parsed = NotParsed
    /\ NoDescribe
    /\ NoPollers

\* a call parseStatus(raw)
Parse ==
    /\ ~parsed.done
    /\ parsed' = [done |-> TRUE, value |-> parseStatus(raw).value,
                  ok |-> parseStatus(raw).ok]
    /\ UNCHANGED raw
    /\ UNCHANGED <<scrapeVars, describeVars, concVars>>

NextParse ==
    Parse

SpecParse ==
    InitParse /\ [][NextParse]_vars

\* ---- Describe: a dry-run Collect whose metrics a goroutine forwards ----

\* The flags are at their defaults (false): the optional queries are off.
InitDescribe ==
    /\ Init
    /\ ~perfTableIOWaits
    /\ ~userStat

\* the channel variables of a call: metricCh and doneCh are made open and no
\* metric was sent; those of a Describe call that returned are unreachable
NewChannels ==
    /\ handed' = 0
    /\ described' = <<>>
    /\ metricChClosed' = FALSE
    /\ doneChClosed' = FALSE

\* every send of Collect on its channel was received: the registry receives
\* whenever Collect sends; the sends on metricCh of a dry run complete one by
\* one as the forwarding goroutine receives them
SendsDone ==
    caller = "Describe" => handed = Len(sink)

\* the registry calls Collect
CollectCall ==
    /\ pc = "Idle"
    /\ dpc = "none"
    /\ polls < MaxPolls
    /\ EnterScrape
    /\ ScrapeEntry
    /\ caller' = "Collect"
    /\ collects' = collects + 1
    /\ fwd' = "none"
    /\ NewChannels
    /\ UNCHANGED <<describes, dpc>>
    /\ UNCHANGED <<parseVars, concVars>>

\* variant of DescribeCall whose dry run leaves e.error and e.totalScrapes alone
DescribeCall_uncounted ==
    /\ pc = "Idle"
    /\ dpc = "none"
    /\ polls < MaxPolls
    /\ EnterScrape
    /\ UNCHANGED <<error, totalScrapes>>
    /\ caller' = "Describe"
    /\ describes' = describes + 1
    /\ dpc' = "collecting"
    /\ fwd' = "receiving"
    /\ NewChannels
    /\ UNCHANGED collects
    /\ UNCHANGED <<parseVars, concVars>>

\* the registry calls Describe: metricCh and doneCh are made, the forwarding
\* goroutine is started and e.Collect(metricCh) enters scrape
DescribeCall ==
    /\ pc = "Idle"
    /\ dpc = "none"
    /\ polls < MaxPolls
    /\ EnterScrape
    /\ ScrapeEntry
    /\ caller' = "Describe"
    /\ describes' = describes + 1
    /\ dpc' = "collecting"
    /\ fwd' = "receiving"
    /\ NewChannels
    /\ UNCHANGED collects
    /\ UNCHANGED <<parseVars, concVars>>

\* a send of the dry-run Collect on metricCh meets the receive of
\* for m := range metricCh: the channel is unbuffered, so the send completes
\* when the goroutine is at its receive
SendMetric ==
    /\ dpc = "collecting"
    /\ fwd = "receiving"
    /\ ~metricChClosed
    /\ handed < Len(sink)
    /\ handed' = handed + 1
    /\ fwd' = "forwarding"
    /\ UNCHANGED <<caller, describes, collects, dpc, described, metricChClosed,
                   doneChClosed>>
    /\ UNCHANGED <<scrapeVars, parseVars, concVars>>

\* variant of ForwardDesc that loses the descriptor
ForwardDesc_lost ==
    /\ fwd = "forwarding"
    /\ described' = described
    /\ fwd' = "receiving"
    /\ UNCHANGED <<caller, describes, collects, dpc, handed, metricChClosed,
                   doneChClosed>>
    /\ UNCHANGED <<scrapeVars, parseVars, concVars>>

\* ch <- m.Desc(): the receiver of ch takes the descriptor of the metric the
\* goroutine received last
ForwardDesc ==
    /\ fwd = "forwarding"
    /\ described' = Append(described, sink[handed].desc)
    /\ fwd' = "receiving"
    /\ UNCHANGED <<caller, describes, collects, dpc, handed, metricChClosed,
                   doneChClosed>>
    /\ UNCHANGED <<scrapeVars, parseVars, concVars>>

\* e.Collect(metricCh) has returned (its last send was received);
\* close(metricCh)
CloseMetricCh ==
    /\ dpc = "collecting"
    /\ pc = "Idle"
    /\ handed = Len(sink)
    /\ metricChClosed' = TRUE
    /\ dpc' = "waiting"
    /\ UNCHANGED <<caller, describes, collects, fwd, handed, described, doneChClosed>>
    /\ UNCHANGED <<scrapeVars, parseVars, concVars>>

\* the range over metricCh ends at the closed channel; close(doneCh)
ForwarderExit ==
    /\ fwd = "receiving"
    /\ metricChClosed
    /\ fwd' = "exited"
    /\ doneChClosed' = TRUE
    /\ UNCHANGED <<caller, describes, collects, dpc, handed, described, metricChClosed>>
    /\ UNCHANGED <<scrapeVars, parseVars, concVars>>

\* <-doneCh; Describe returns
DescribeReturn ==
    /\ dpc = "waiting"
    /\ doneChClosed
    /\ dpc' = "none"
    /\ UNCHANGED <<caller, describes, collects, fwd, handed, described, metricChClosed,
                   doneChClosed>>
    /\ UNCHANGED <<scrapeVars, parseVars, concVars>>

\* the steps of the goroutine that runs Collect or Describe
CallerStep ==
    \/ SendsDone /\ Open
    \/ SendsDone /\ QueryGlobalStatus
    \/ SendsDone /\ QuerySlaveStatus
    \/ SendsDone /\ QueryPerfSchema
    \/ SendsDone /\ QueryUserStats
    \/ SendsDone /\ ScrapeReturn
    \/ SendsDone /\ CollectSend
    \/ SendMetric
    \/ CloseMetricCh
    \/ DescribeReturn

\* the steps of the forwarding goroutine
ForwarderStep ==
    \/ ForwardDesc
    \/ ForwarderExit

NextDescribe ==
    \/ CollectCall
    \/ DescribeCall
    \/ CallerStep
    \/ ForwarderStep

\* Every goroutine that can take a step takes one: the Go scheduler runs
\* runnable goroutines, the database calls return, and the receiver of ch
\* keeps receiving.
SpecDescribe ==
    /\ InitDescribe
    /\ [][NextDescribe]_vars
    /\ WF_vars(CallerStep)
    /\ WF_vars(ForwarderStep)

\* ---- polls that overlap: Collect called from several goroutines ----

\* what scrape does between e.totalScrapes.Inc() and its return, as far as the
\* self-observation metrics go: nothing, or e.error.Set(1) on a failure
ScrapeFailures ==
    {"none", "open", "query", "scan"}

\* the variables the overlapping polls leave alone
sequentialVars ==
    <<pc, dbOpen, rowsOpen, deferred, sink, perfTableIOWaits, userStat, polls,
      queries, fed, failure, outcome, closed, earlier>>

\* The flags are at their defaults (false): every failure return of scrape
\* that can be reached calls e.error.Set(1).
InitConcurrent ==
    /\ Init
    /\ ~perfTableIOWaits
    /\ ~userStat

\* poller p moves to position st
Goto(p, st) ==
    cpc' = [cpc EXCEPT ![p] = st]

\* a goroutine calls Collect, which calls scrape: the deferred closure is
\* registered
ConcEnter(p) ==
    /\ cpc[p] = "Idle"
    /\ Goto(p, "Resetting")
    /\ UNCHANGED <<error, totalScrapes, duration, chit, chanded>>
    /\ UNCHANGED <<sequentialVars, parseVars, describeVars>>

\* e.error.Set(0)
ConcResetError(p) ==
    /\ cpc[p] = "Resetting"
    /\ error' = 0
    /\ Goto(p, "Counting")
    /\ UNCHANGED <<totalScrapes, duration, chit, chanded>>
    /\ UNCHANGED <<sequentialVars, parseVars, describeVars>>

\* e.totalScrapes.Inc(): the counter adds atomically
ConcInc(p) ==
    /\ cpc[p] = "Counting"
    /\ totalScrapes' = totalScrapes + 1
    /\ Goto(p, "Scraping")
    /\ UNCHANGED <<error, duration, chit, chanded>>
    /\ UNCHANGED <<sequentialVars, parseVars, describeVars>>

\* sql.Open and the queries: scrape reaches its end, or a failure makes it
\* call e.error.Set(1) and return
ConcScrape(p) ==
    /\ cpc[p] = "Scraping"
    /\ \E f \in ScrapeFailures :
        IF f = "none"
        THEN UNCHANGED <<error, chit>>
        ELSE /\ error' = 1
             /\ chit' = [chit EXCEPT ![p] = TRUE]
    /\ Goto(p, "Returning")
    /\ UNCHANGED <<totalScrapes, duration, chanded>>
    /\ UNCHANGED <<sequentialVars, parseVars, describeVars>>

\* the deferred e.duration.Set(time.Since(begun).Seconds()); scrape returns
ConcScrapeReturn(p) ==
    /\ cpc[p] = "Returning"
    /\ \E sinceBegun \in 0..MaxElapsed : duration' = sinceBegun
    /\ Goto(p, "SendingDuration")
    /\ UNCHANGED <<error, totalScrapes, chit, chanded>>
    /\ UNCHANGED <<sequentialVars, parseVars, describeVars>>

\* ch <- e.duration
ConcSendDuration(p) ==
    /\ cpc[p] = "SendingDuration"
    /\ Goto(p, "SendingTotalScrapes")
    /\ UNCHANGED <<error, totalScrapes, duration, chit, chanded>>
    /\ UNCHANGED <<sequentialVars, parseVars, describeVars>>

\* ch <- e.totalScrapes
ConcSendTotalScrapes(p) ==
    /\ cpc[p] = "SendingTotalScrapes"
    /\ Goto(p, "SendingError")
    /\ UNCHANGED <<error, totalScrapes, duration, chit, chanded>>
    /\ UNCHANGED <<sequentialVars, parseVars, describeVars>>

\* ch <- e.error: the sink gets the gauge with the value it has now; Collect
\* returns
ConcSendError(p) ==
    /\ cpc[p] = "SendingError"
    /\ chanded' = [chanded EXCEPT ![p] = <<error>>]
    /\ Goto(p, "Returned")
    /\ UNCHANGED <<error, totalScrapes, duration, chit>>
    /\ UNCHANGED <<sequentialVars, parseVars, describeVars>>

\* nothing orders the statements of two calls: Collect and scrape take no lock
NextConcurrent ==
    \E p \in Pollers :
        \/ ConcEnter(p)
        \/ ConcResetError(p)
        \/ ConcInc(p)
        \/ ConcScrape(p)
        \/ ConcScrapeReturn(p)
        \/ ConcSendDuration(p)
        \/ ConcSendTotalScrapes(p)
        \/ ConcSendError(p)

SpecConcurrent ==
    InitConcurrent /\ [][NextConcurrent]_vars

\* ======================= properties =======================
PollReturned ==
    pc = "Idle" /\ polls > 0

\* the metrics of one subsystem the current poll has sent, in order
MetricsOf(subsystem) ==
    SelectSeq(sink, LAMBDA m : m.desc.subsystem = subsystem)

QueryMetrics ==
    SelectSeq(sink, LAMBDA m : m.desc.subsystem # exporter)

QueryOf(state) ==
    CASE state = "QueryingGlobalStatus" -> "SHOW GLOBAL STATUS"
      [] state = "QueryingSlaveStatus" -> "SHOW SLAVE STATUS"
      [] state = "QueryingPerfSchema" -> "SELECT table_io_waits_summary_by_table"
      [] state = "QueryingUserStats" -> "SELECT USER_STATISTICS"
      [] OTHER -> "none"

\* the Querying states in the order of the code, and their subsystems
QueryingStates ==
    <<"QueryingGlobalStatus", "QueryingSlaveStatus", "QueryingPerfSchema",
      "QueryingUserStats">>

Subsystems ==
    <<globalStatus, slaveStatus, performanceSchema, informationSchema>>

StateRank(state) ==
    CHOOSE i \in 1..4 : QueryingStates[i] = state

SubsystemRank(subsystem) ==
    CHOOSE i \in 1..4 : Subsystems[i] = subsystem

\* the rows of SHOW GLOBAL STATUS the poll scanned whose value the parser accepts
ParsedGlobalRows ==
    SelectSeq(fed.globalStatus.rows, LAMBDA r : parseStatus(r.val).ok)

\* the positions of the scanned slave-status row whose cell the parser accepts
ParsedSlaveCells ==
    {i \in 1..Len(fed.slaveStatus.vals) : parseStatus(fed.slaveStatus.vals[i]).ok}

\* C1: a query-execution failure or a row/column scan failure in any
\* Querying state aborts the remaining states (the failed state's query is
\* the last one issued) and leaves last_scrape_error at 1 when the poll
\* returns.
C1_FailureSetsErrorFlag ==
    (PollReturned /\ failure.kind \in {"query", "columns", "scan"})
        => /\ error = 1
           /\ outcome = "Failed"
           /\ queries[Len(queries)] = QueryOf(failure.state)

\* C2: on the user-statistics path the metric sent for column j > 1 of row r
\* carries the value scanned from column j of row r, the row's user name
\* as its label and the name user_statistics_<lower-cased column>.
C2_UserStatValueOfSameColumn ==
    LET us == fed.userStats
        n == Len(us.cols)
        sent == MetricsOf(informationSchema)
    IN  n > 0 =>
        /\ Len(sent) = Len(us.rows) * (n - 1)
        /\ \A r \in 1..Len(us.rows) : \A j \in 1..(n - 1) :
            LET m == sent[(r - 1) * (n - 1) + j]
            IN  /\ m.value = us.rows[r].data[j]
                /\ m.labelValues = <<us.rows[r].user>>
                /\ m.desc.name = s_user_statistics_ \o ToLower(us.cols[j + 1])

\* the claimed third rule: the value has the form <anything>.<digits>
HasTrailingDigitRun(data) ==
    \E j \in 2..(Len(data) - 1) :
        /\ data[j] = "."
        /\ \A k \in (j + 1)..Len(data) : IsDigit(data[k])

TrailingDigitRun(data) ==
    Suffix(data, 1 + CHOOSE j \in 2..(Len(data) - 1) :
                         /\ data[j] = "."
                         /\ \A k \in (j + 1)..Len(data) : IsDigit(data[k]))

\* C3: the parser applies four rules in order: "Yes"/"ON" give (1,true);
\* "No"/"OFF" give (0,true); a value of the form <anything>.<digits> gives
\* the number written by the trailing digit run with ok=true
\* ("mysql-bin.000123" gives (123,true)); otherwise the whole value is parsed
\* as a number and ok tells whether that succeeded.  The third rule is
\* stated for the values that are not a number as a whole: for those that
\* are, the same sentences give parse("3.14") = (3.14,true), which is stated
\* here instead.
C3_ParserRules ==
    parsed.done =>
        IF raw = s_Yes \/ raw = s_ON THEN parsed.ok /\ parsed.value = Num(1)
        ELSE IF raw = s_No \/ raw = s_OFF THEN parsed.ok /\ parsed.value = Num(0)
        ELSE IF HasTrailingDigitRun(raw) /\ ParseFloat(raw).err
        THEN parsed.ok /\ parsed.value = Num(DecimalValue(TrailingDigitRun(raw)))
        ELSE /\ parsed.ok = ~ParseFloat(raw).err
             /\ parsed.ok => parsed.value = ParseFloat(raw).value

\* the number of metrics a state that completed sends for what it was fed
ExpectedCount(rank) ==
    CASE rank = 1 -> Len(ParsedGlobalRows)
      [] rank = 2 -> Cardinality(ParsedSlaveCells)
      [] rank = 3 -> 6 * Len(fed.perfSchema.rows)
      [] rank = 4 -> Len(fed.userStats.rows) * (Len(fed.userStats.cols) - 1)

\* C4: when the connection open fails no query is issued and no
\* query-derived metric is sent; when the query of state k fails, no later
\* query is issued, no metric of state k or of a later state is sent, every
\* metric of the earlier completed states stays sent, and after a failure of
\* SHOW SLAVE STATUS the error flag is 1.
C4_FailureContainment ==
    /\ failure.kind = "open" => queries = <<>> /\ QueryMetrics = <<>>
    /\ failure.kind = "query" =>
        /\ queries[Len(queries)] = QueryOf(failure.state)
        /\ \A i \in 1..Len(QueryMetrics) :
              SubsystemRank(QueryMetrics[i].desc.subsystem) < StateRank(failure.state)
        /\ \A rank \in 1..(StateRank(failure.state) - 1) :
              Len(MetricsOf(Subsystems[rank])) = ExpectedCount(rank)
        /\ failure.state = "QueryingSlaveStatus" => error = 1

C4_Witness ==
    /\ PollReturned
    /\ failure = [kind |-> "query", state |-> "QueryingSlaveStatus"]
    /\ Len(MetricsOf(globalStatus)) = 2
    /\ error = 1

\* C5: scrapes_total equals the number of polls made so far, whether they
\* ended in Done or in Failed.
C5_ScrapesTotalCountsPolls ==
    /\ totalScrapes = polls
    /\ PollReturned => sink[Len(sink) - 1].value = Num(polls)

C5_Witness ==
    /\ PollReturned
    /\ polls = 2
    /\ outcome = "Failed"
    /\ earlier = <<"Done">>
    /\ totalScrapes = 2

\* C6: every poll, Done or Failed, records the scrape duration and then
\* sends the three self-observation metrics exactly once each, after all its
\* query-derived metrics and before it returns.
C6_SelfMetricsSentOnce ==
    /\ PollReturned =>
        /\ Len(sink) >= 3
        /\ InSeq("duration.Set", closed)
        /\ SubSeq(sink, Len(sink) - 2, Len(sink))
             = <<MustNewConstMetric(newDesc(exporter, s_last_scrape_duration_seconds),
                                    "Gauge", Num(duration), <<>>),
                 MustNewConstMetric(newDesc(exporter, s_scrapes_total),
                                    "Counter", Num(totalScrapes), <<>>),
                 MustNewConstMetric(newDesc(exporter, s_last_scrape_error),
                                    "Gauge", Num(error), <<>>)>>
        /\ \A i \in 1..(Len(sink) - 3) : sink[i].desc.subsystem # exporter
    /\ pc # "Idle" => \A i \in 1..Len(sink) : sink[i].desc.subsystem # exporter

C6_Witness ==
    /\ PollReturned
    /\ outcome = "Failed"
    /\ failure.kind = "scan"
    /\ Len(sink) > 3
    /\ duration = 1

\* C7: a database handle opened in a poll is closed before the poll returns
\* on every exit path, and no handle stays open across polls.
C7_ConnectionReleased ==
    /\ pc \in {"Idle", "Connecting", "Emitting"} => ~dbOpen
    /\ (pc \in {"Emitting", "Idle"} /\ polls > 0 /\ failure.kind # "open")
          => InSeq("db.Close", closed)

C7_Witness ==
    /\ PollReturned
    /\ failure = [kind |-> "scan", state |-> "QueryingUserStats"]
    /\ InSeq("db.Close", closed)
    /\ ~dbOpen

\* the classification the global-status path is claimed to make
ClaimedGlobalStatusMetric(key, value) ==
    LET match == globalStatusREFindStringSubmatch(ToLower(key))
    IN  IF ~match.matched
        THEN MustNewConstMetric(newDesc(globalStatus, ToLower(key)),
                                "Untyped", value, <<>>)
        ELSE MustNewConstMetric(
                 CASE match.family = s_com -> globalCommandsDesc
                   [] match.family = s_connection_errors -> globalConnectionErrorsDesc
                   [] match.family = s_innodb_rows -> globalInnoDBRowOpsDesc
                   [] OTHER -> globalPerformanceSchemaLostDesc,
                 "Counter", value, <<match.rest>>)

\* C8: on the global-status path every key whose lower-cased form matches
\* (com|connection_errors|innodb_rows|performance_schema)_<remainder> gives a
\* Counter of the family's fixed identity labelled with the remainder, and
\* every other key gives an Untyped label-less metric named by the
\* lower-cased key.
C8_GlobalStatusFamilyRouting ==
    LET sent == MetricsOf(globalStatus)
    IN  /\ Len(sent) = Len(ParsedGlobalRows)
        /\ \A i \in 1..Len(sent) :
              sent[i] = ClaimedGlobalStatusMetric(ParsedGlobalRows[i].key,
                                                  parseStatus(ParsedGlobalRows[i].val).value)

\* C9: last_scrape_error is always 0 or 1 and is 0 whenever the latest poll
\* reached Done, whatever the outcome of the polls before it.
C9_ErrorReflectsLatestPoll ==
    /\ error \in {0, 1}
    /\ outcome = "Done" => error = 0
    /\ (PollReturned /\ outcome = "Done") => sink[Len(sink)].value = Num(0)

C9_Witness ==
    /\ PollReturned
    /\ outcome = "Done"
    /\ earlier = <<"Failed">>
    /\ error = 0

\* C10: a cell the parser rejects on the global-status or slave-status path
\* gives no metric, the cells, rows and states after it are still processed,
\* and it does not set the error flag.
C10_ParseFailureIsLocal ==
    /\ Len(MetricsOf(globalStatus)) = Len(ParsedGlobalRows)
    /\ \A i \in 1..Len(MetricsOf(globalStatus)) :
          MetricsOf(globalStatus)[i].value = parseStatus(ParsedGlobalRows[i].val).value
    /\ Len(MetricsOf(slaveStatus)) = Cardinality(ParsedSlaveCells)
    /\ (PollReturned /\ failure.kind = "none") => error = 0 /\ outcome = "Done"

C10_Witness ==
    /\ PollReturned
    /\ outcome = "Done"
    /\ error = 0
    /\ Len(fed.globalStatus.rows) = 2
    /\ ~parseStatus(fed.globalStatus.rows[1].val).ok
    /\ Len(MetricsOf(globalStatus)) = 1
    /\ Len(fed.slaveStatus.vals) = 3
    /\ ParsedSlaveCells = {1, 3}
    /\ Len(MetricsOf(slaveStatus)) = 2
    /\ Len(queries) = 4

\* the positions of the cells of the scanned slave-status row that parse, in
\* column order
ParsedSlaveIndexes ==
    SelectSeq([i \in 1..Len(fed.slaveStatus.vals) |-> i],
              LAMBDA i : parseStatus(fed.slaveStatus.vals[i]).ok)

\* the query of the current poll was issued
Issued(state) ==
    InSeq(QueryOf(state), queries)

\* the slave-status metrics sent are those of the row r: in column order,
\* one per column whose cell parses (idx holds their positions), each
\* Untyped, without labels and named by the lower-cased column name
OfSlaveRow(sent, r, idx) ==
    /\ Len(sent) = Len(idx)
    /\ \A k \in 1..Len(sent) :
        sent[k] = [desc |-> [namespace |-> "mysql",
                             subsystem |-> "slave_status",
                             name |-> ToLower(r.cols[idx[k]]),
                             labelNames |-> <<>>],
                   vtype |-> "Untyped",
                   value |-> parseStatus(r.vals[idx[k]]).value,
                   labelValues |-> <<>>]

\* C11: when SHOW SLAVE STATUS succeeds without a row, the poll sends no
\* slave_status metric, the state does not fail and leaves the error gauge
\* at 0, and the poll goes on to the next enabled state, whose query is
\* issued; when it returns a row that is scanned, the slave_status metrics
\* are, in column order, one per column whose cell parses, each Untyped,
\* without labels, of subsystem slave_status and named by the lower-cased
\* column name the result reports.
C11_SlaveStatusRowOptional ==
    LET r == fed.slaveStatus
    IN  /\ (Issued("QueryingSlaveStatus") /\ ~r.queryErr /\ ~r.hasRow) =>
            /\ MetricsOf(slaveStatus) = <<>>
            /\ failure.state # "QueryingSlaveStatus"
            /\ pc = "QueryingPerfSchema" => (error = 0 /\ outcome = "none")
            /\ (perfTableIOWaits /\ pc # "QueryingPerfSchema") =>
                   Issued("QueryingPerfSchema")
            /\ (~perfTableIOWaits /\ userStat
                  /\ pc \notin {"QueryingPerfSchema", "QueryingUserStats"}) =>
                   Issued("QueryingUserStats")
            /\ (PollReturned /\ failure.kind = "none") =>
                   (error = 0 /\ outcome = "Done")
        /\ (Issued("QueryingSlaveStatus") /\ r.hasRow /\ ~r.columnsErr /\ ~r.scanErr) =>
            OfSlaveRow(MetricsOf(slaveStatus), r, ParsedSlaveIndexes)

\* a poll whose slave-status query returned no row went on to the enabled
\* table-waits query and returned without error
C11_Witness ==
    /\ PollReturned
    /\ Issued("QueryingSlaveStatus")
    /\ ~fed.slaveStatus.queryErr
    /\ ~fed.slaveStatus.hasRow
    /\ perfTableIOWaits
    /\ Issued("QueryingPerfSchema")
    /\ outcome = "Done"
    /\ error = 0
    /\ sink[Len(sink)].value = Num(0)

\* C12: an optional state whose toggle is off is skipped: its query is not
\* issued, no metric of its subsystem is sent, no result is read for it and
\* the poll cannot fail in it; the toggles are independent: an enabled
\* state the poll went through has issued its query whatever the other
\* toggle is.
C12_DisabledStateSkipped ==
    /\ ~perfTableIOWaits =>
        /\ ~Issued("QueryingPerfSchema")
        /\ MetricsOf(performanceSchema) = <<>>
        /\ fed.perfSchema = NotFed.perfSchema
        /\ failure.state # "QueryingPerfSchema"
        /\ "perfSchemaTableWaitsRows" \notin rowsOpen
    /\ ~userStat =>
        /\ ~Issued("QueryingUserStats")
        /\ MetricsOf(informationSchema) = <<>>
        /\ fed.userStats = NotFed.userStats
        /\ failure.state # "QueryingUserStats"
        /\ "informationSchemaUserStatisticsRows" \notin rowsOpen
    /\ (perfTableIOWaits /\ (pc = "QueryingUserStats" \/ outcome = "Done")) =>
        Issued("QueryingPerfSchema")
    /\ (userStat /\ outcome = "Done") =>
        Issued("QueryingUserStats")

\* a poll with the table-waits query on and the user statistics off that
\* sent the six metrics of a row and returned
C12_Witness ==
    /\ perfTableIOWaits
    /\ ~userStat
    /\ PollReturned
    /\ outcome = "Done"
    /\ Len(MetricsOf(performanceSchema)) = 6
    /\ Len(queries) = 3

QueryRank(q) ==
    CHOOSE i \in 1..4 : QueryOf(QueryingStates[i]) = q

\* key ends with tail
HasSuffix(key, tail) ==
    /\ Len(tail) <= Len(key)
    /\ Suffix(key, Len(key) - Len(tail) + 1) = tail

\* the metric m is the one of the global-status row r: it carries the value
\* of the row and either is named by the lower-cased key or carries the end
\* of the key as its label
OfGlobalRow(m, r) ==
    /\ m.value = parseStatus(r.val).value
    /\ IF m.labelValues = <<>>
       THEN m.desc.name = ToLower(r.key)
       ELSE HasSuffix(r.key, m.labelValues[1])

\* the operations of the table-waits metrics, in the order they are sent
Operations ==
    <<s_read, s_write, s_fetch, s_insert, s_update, s_delete>>

\* the metric name of a user-statistics column
UserStatName(columnName) ==
    IF \E t \in informationSchemaUserStatisticsTypes : t.column = columnName
    THEN (CHOOSE t \in informationSchemaUserStatisticsTypes : t.column = columnName).name
    ELSE s_user_statistics_ \o ToLower(columnName)

\* the metrics sent are in the order of their queries, and the query of each
\* was issued
InQueryOrder(sent) ==
    /\ \A i \in 1..(Len(sent) - 1) :
        SubsystemRank(sent[i].desc.subsystem)
            <= SubsystemRank(sent[i + 1].desc.subsystem)
    /\ \A i \in 1..Len(sent) :
        Issued(QueryingStates[SubsystemRank(sent[i].desc.subsystem)])

\* the k-th global-status metric is of the k-th row that parses
InGlobalRowOrder(sentG, rowsG) ==
    /\ Len(sentG) = Len(rowsG)
    /\ \A k \in 1..Len(sentG) : OfGlobalRow(sentG[k], rowsG[k])

\* the k-th slave-status metric is of the k-th column that parses
InSlaveColumnOrder(sentS, idxS, cols) ==
    /\ Len(sentS) = Len(idxS)
    /\ \A k \in 1..Len(sentS) : sentS[k].desc.name = ToLower(cols[idxS[k]])

\* the table-waits metrics 6(r-1)+1..6r are of row r, the operations in order
InTableWaitsOrder(sentP, rowsP) ==
    /\ Len(sentP) = 6 * Len(rowsP)
    /\ \A r \in 1..Len(rowsP) : \A k \in 1..6 :
        sentP[6 * (r - 1) + k].labelValues
            = <<rowsP[r].schema, rowsP[r].name, Operations[k]>>

\* the user-statistics metrics n(r-1)+1..nr are of row r, the n columns
\* after the first in order
InUserStatOrder(sentU, rowsU, cols, n) ==
    /\ rowsU # <<>> => Len(sentU) = n * Len(rowsU)
    /\ \A r \in 1..Len(rowsU) : \A j \in 1..n :
        /\ sentU[n * (r - 1) + j].labelValues = <<rowsU[r].user>>
        /\ sentU[n * (r - 1) + j].desc.name = UserStatName(cols[j + 1])

\* C13: the queries of a poll are issued in the order global status, slave
\* status, table waits, user statistics, each at most once (every query is
\* of a later state than the one before it); the metrics of the queries
\* reach the sink in that order of their queries (no metric is followed by
\* one of an earlier query); within a query
\* in row order (global status: the k-th metric is of the k-th row that
\* parses; table waits: metrics 6(r-1)+1..6r are of row r; user statistics:
\* the metrics of row r follow those of row r-1); and within a row in column
\* order (slave status: the k-th metric is of the k-th column that parses;
\* table waits: the operations in order; user statistics: the columns after
\* the first in order).
C13_FixedOrder ==
    /\ \A i \in 1..(Len(queries) - 1) :
        QueryRank(queries[i]) < QueryRank(queries[i + 1])
    /\ InQueryOrder(QueryMetrics)
    /\ InGlobalRowOrder(MetricsOf(globalStatus), ParsedGlobalRows)
    /\ InSlaveColumnOrder(MetricsOf(slaveStatus), ParsedSlaveIndexes,
                          fed.slaveStatus.cols)
    /\ InTableWaitsOrder(MetricsOf(performanceSchema), fed.perfSchema.rows)
    /\ InUserStatOrder(MetricsOf(informationSchema), fed.userStats.rows,
                       fed.userStats.cols, Len(fed.userStats.cols) - 1)

\* a poll that issued the four queries and sent metrics of each of them,
\* two of them of global-status rows, and returned
C13_Witness ==
    /\ PollReturned
    /\ Len(queries) = 4
    /\ Len(MetricsOf(globalStatus)) = 2
    /\ Len(MetricsOf(slaveStatus)) = 2
    /\ Len(MetricsOf(performanceSchema)) = 6
    /\ Len(MetricsOf(informationSchema)) = 2

\* C14: in a poll without a failure, every global-status row whose value
\* parses and every slave-status column whose cell parses has exactly one
\* metric, and every user-statistics column after the first has exactly one
\* metric in every row; the metric of a column that is not in
\* informationSchemaUserStatisticsTypes is Untyped, named
\* user_statistics_<lower-cased column> and labelled with the user.
C14_UnknownColumnsKept ==
    LET sentU == MetricsOf(informationSchema)
        rowsU == fed.userStats.rows
        cols == fed.userStats.cols
        n == Len(cols) - 1
    IN  failure.kind = "none" =>
        /\ Len(MetricsOf(globalStatus)) = Len(ParsedGlobalRows)
        /\ Len(MetricsOf(slaveStatus)) = Cardinality(ParsedSlaveCells)
        /\ rowsU # <<>> => Len(sentU) = n * Len(rowsU)
        /\ rowsU = <<>> => sentU = <<>>
        /\ \A r \in 1..Len(rowsU) : \A j \in 1..n :
            (\A t \in informationSchemaUserStatisticsTypes : t.column # cols[j + 1]) =>
                LET m == sentU[n * (r - 1) + j]
                IN  /\ m.vtype = "Untyped"
                    /\ m.desc = [namespace |-> "mysql",
                                 subsystem |-> "info_schema",
                                 name |-> s_user_statistics_ \o ToLower(cols[j + 1]),
                                 labelNames |-> <<"user">>]
                    /\ m.labelValues = <<rowsU[r].user>>

\* a poll without failure that read a user-statistics row with a column
\* missing from the table, and global-status rows, and returned
C14_Witness ==
    /\ PollReturned
    /\ failure.kind = "none"
    /\ userStat
    /\ InSeq(s_UNKNOWN_COL, fed.userStats.cols)
    /\ Len(fed.userStats.rows) = 1
    /\ Len(MetricsOf(informationSchema)) = 2
    /\ ParsedGlobalRows # <<>>
    /\ error = 0

\* C15: with perfTableIOWaits on, every row the table-waits query returned
\* has exactly six metrics, in row order; each is a Counter of
\* mysql_perf_schema_table_io_waits_total labelled with the schema and the
\* name of the row and with the operation, in the order read, write, fetch,
\* insert, update, delete, and carries the row's count of that operation.
C15_SixCountersPerRow ==
    LET sentP == MetricsOf(performanceSchema)
        rowsP == fed.perfSchema.rows
    IN  perfTableIOWaits =>
        /\ Len(sentP) = 6 * Len(rowsP)
        /\ \A r \in 1..Len(rowsP) : \A k \in 1..6 :
            sentP[6 * (r - 1) + k]
                = [desc |-> [namespace |-> "mysql",
                             subsystem |-> "perf_schema",
                             name |-> s_table_io_waits_total,
                             labelNames |-> <<"schema", "name", "operation">>],
                   vtype |-> "Counter",
                   value |-> Num(rowsP[r].counts[k]),
                   labelValues |-> <<rowsP[r].schema, rowsP[r].name, Operations[k]>>]

\* a poll with perfTableIOWaits on that read a row of the table-waits
\* summary whose counts differ and returned
C15_Witness ==
    /\ perfTableIOWaits
    /\ PollReturned
    /\ Len(fed.perfSchema.rows) >= 1
    /\ fed.perfSchema.rows[1].counts[1] # fed.perfSchema.rows[1].counts[2]
    /\ Len(MetricsOf(performanceSchema)) = 6 * Len(fed.perfSchema.rows)

\* the safety part of C16
HandshakeLossless ==
    /\ Len(described) <= handed
    /\ handed <= Len(sink)
    /\ handed - Len(described) = (IF fwd = "forwarding" THEN 1 ELSE 0)
    /\ \A i \in 1..Len(described) : described[i] = sink[i].desc
    /\ metricChClosed => (pc = "Idle" /\ handed = Len(sink))
    /\ doneChClosed => (metricChClosed /\ Len(described) = Len(sink))
    /\ (caller = "Describe" /\ dpc = "none") =>
        /\ fwd = "exited"
        /\ doneChClosed
        /\ Len(described) = Len(sink)
        /\ Len(sink) >= 3
        /\ sink[Len(sink)].desc.name = s_last_scrape_error

\* C16: the handshake of Describe loses nothing and does not block: the
\* descriptors the receiver of ch got are those of the metrics the dry-run
\* Collect sent, one each and in the order sent; metricCh is closed only
\* when Collect has returned and every send was received; doneCh is closed
\* only after the last descriptor was delivered; Describe has returned only
\* after that; and, the receiver of ch receiving, every Describe call
\* returns.
C16_DescribeHandshake ==
    /\ []HandshakeLossless
    /\ (dpc # "none") ~> (dpc = "none")

\* a Describe call that returned after the descriptors of query metrics and
\* of the three self-observation metrics were delivered
C16_Witness ==
    /\ caller = "Describe"
    /\ dpc = "none"
    /\ doneChClosed
    /\ Len(described) >= 5
    /\ described[Len(described)] = newDesc(exporter, s_last_scrape_error)

\* C17: a Describe call runs scrape as a Collect call does: the counter is
\* the number of Collect calls plus the number of Describe calls; the dry
\* run starts with the error gauge at 0 and returns with it at 1 exactly
\* when it failed; and the duration gauge carries the time of the dry run
\* when it has returned.
C17_DescribeIsAPoll ==
    /\ totalScrapes = collects + describes
    /\ polls = collects + describes
    /\ (caller = "Describe" /\ pc = "Connecting") => error = 0
    /\ (caller = "Describe" /\ pc \in {"Returning", "Emitting", "Idle"}) =>
        error = (IF failure.kind = "none" THEN 0 ELSE 1)
    /\ (caller = "Describe" /\ pc \in {"Emitting", "Idle"}) =>
        /\ closed # <<>>
        /\ closed[Len(closed)] = "duration.Set"
        /\ duration \in 0..MaxElapsed
    /\ (caller = "Describe" /\ dpc = "none") =>
        /\ sink[Len(sink) - 1].value = Num(collects + describes)
        /\ sink[Len(sink)].value = Num(error)

\* a Describe call after a Collect call that succeeded: the dry run failed,
\* set the error gauge and made the counter 2
C17_Witness ==
    /\ caller = "Describe"
    /\ dpc = "none"
    /\ collects = 1
    /\ describes = 1
    /\ totalScrapes = 2
    /\ earlier = <<"Done">>
    /\ outcome = "Failed"
    /\ error = 1

\* C18: when polls overlap, a poll that hit a connection, query or scan
\* failure hands e.error to the sink with the value 1, and when every poll
\* has returned e.totalScrapes is the number of polls made.
C18_OverlapKeepsSelfMetrics ==
    /\ \A p \in Pollers :
        (chit[p] /\ chanded[p] # <<>>) => chanded[p] = <<1>>
    /\ (\A p \in Pollers : cpc[p] \in {"Idle", "Returned"}) =>
        totalScrapes = Cardinality({p \in Pollers : cpc[p] = "Returned"})

====
